---- MODULE Spec2Model ----
(***************************************************************************)
(* nixos-update-reminder: one run of async_main.                           *)
(*                                                                         *)
(* The run is a state machine over the event loop's suspension points:     *)
(* every action is the code that runs between two awaits of one task (or   *)
(* of async_main).  A process exit is visible to the program only through  *)
(* the completion of the future a task awaits, so "the process exits" and  *)
(* "the awaiting task resumes" are one step.                               *)
(***************************************************************************)
EXTENDS Integers, Sequences, FiniteSets, TLC

\* config.hosts, in the order of the configuration file.
HostOrder == <<"h1", "h2">>

Hosts == {HostOrder[i] : i \in 1..Len(HostOrder)}

\* Largest clock value of a run (ticks).
MaxTime == 2

Times == 0..MaxTime

\* signal.SIGHUP, signal.SIGKILL, signal.SIGTERM
SIGHUP == 1

SIGKILL == 9

SIGTERM == 15

\* Exit statuses a process can report: 0, a failing exit code, or -signum
\* when a signal ended it.
ExitStatuses == {0, 1, -SIGHUP, -SIGTERM, -SIGKILL}

\* What a host command can have written to standard output (bytes):
\* "a\n", " a ", and the UTF-8 bytes of u-umlaut followed by "\n".
Outputs == {<<97, 10>>, <<32, 97, 32>>, <<195, 188, 10>>}

\* nixos_version_timeout values of the configuration (seconds); load()
\* rejects only negative numbers.
QueryTimeouts == {0, 30}

\* Clock ticks per second: the clock of the model runs in half seconds.
TicksPerSecond == 2

TicksPerDay == 86400 * TicksPerSecond

\* notification_interval and max_time_since_update of the configuration
\* (ticks).
NotificationIntervals == {1, TicksPerSecond}

MaxTimesSinceUpdate == {1}

\* http_timeout (ticks): it is passed on to every fetch and read nowhere
\* else.
HttpTimeout == 2

\* The revisions the host commands above can report.
Commits == {"a"}

\* The commit.author.date values of the remote's documents (ticks): the
\* start of the run's clock, and one tick less than a day before it.
AuthorDates == {0, 1 - TicksPerDay}

VARIABLES
    force,          \* args.force_notification
    config,         \* the loaded Config (the durations this run reads)
    lastFile,       \* content of <cache>/last-notification
    now,            \* async_main's local `now`
    mpc,            \* where async_main is
    tpc,            \* per host: where its run_and_store task is
    exc,            \* per host: the exception get_nixos_revision is handling
    proc,           \* per host: the state of its subprocess
    rc,             \* per host: the exit status of an exited subprocess
    waited,         \* per host: the task's wait for the exit has returned
    sigs,           \* per host: the signals the task sent, in order
    stdout,         \* per host: the bytes communicate() returned
    atDeadline,     \* per host: where the task was when the deadline expired
    expired,        \* the wait_for of get_all_nixos_revisions has timed out
    results,        \* get_all_nixos_revisions' local `results`
    revisions,      \* async_main's `revisions`
    cache,          \* per commit: the file <cache>/commit-info/<commit>
    rpc,            \* per host: where its get_and_store task is
    forced,         \* per host: get_author_date runs with update_commit_info
    author_dates,   \* async_main's `author_dates`
    message,        \* async_main's `message`
    shown,          \* the notification bodies shown, in order
    cpc,            \* per caller: where its call of the commit cache is
    call,           \* per caller: the function it called and the commit
    commit_info,    \* per caller: update_commit_info's local `commit_info`
    temp,           \* per caller: the file in its temporary directory
    nfetch,         \* per caller: the fetches made by the call so far
    log,            \* per caller: what its calls returned, in order
    answered,       \* per commit: the remote's last answer
    changed,        \* the remote gave two different answers for a commit
    clock,          \* the time since the commit resolution began (ticks)
    started,        \* per host: the clock when its pending fetch began
    runs,           \* the runs of the program so far, this one included
    stamps          \* the timestamps notify has stored, in order

\* The variables of the callers of the commit cache.
cvars == <<cpc, call, commit_info, temp, nfetch, log, answered, changed>>

\* The clock of the commit resolution.
tvars == <<clock, started>>

\* The history of the runs.
hvars == <<runs, stamps>>

vars == <<force, config, lastFile, now, mpc, tpc, exc, proc, rc, waited, sigs,
          stdout, atDeadline, expired, results, revisions, cache, rpc, forced,
          author_dates, message, shown, cvars, tvars, hvars>>

\* The variables of the commit resolution and of the report.
rvars == <<cache, rpc, forced, author_dates, message, shown>>

qvars == <<tpc, exc, proc, rc, waited, sigs, stdout, atDeadline, expired, results>>

----------------------------------------------------------------------------
\* Values

\* A dict entry that is not set.
Unset == [revision_or_message |-> "", error |-> FALSE, set |-> FALSE]

RevisionResult(m, e) == [revision_or_message |-> m, error |-> e, set |-> TRUE]

TimedOut == RevisionResult("query timed out", TRUE)

CannotQuery == RevisionResult("cannot query", TRUE)

\* The content of the last-notification file: absent, not a timestamp, or
\* a timestamp.
NoFile == [kind |-> "absent", t |-> 0]

Garbage == [kind |-> "garbage", t |-> 0]

Stamp(t) == [kind |-> "stamp", t |-> t]

\* The content of a commit-info file: absent, not JSON, or a JSON document
\* with its sha and its commit.author.date (date_ok: fromisoformat accepts
\* it).
NoEntry == [kind |-> "absent", sha |-> "", date_ok |-> FALSE, date |-> 0]

BadJson == [kind |-> "garbage", sha |-> "", date_ok |-> FALSE, date |-> 0]

Doc(sha, ok, d) == [kind |-> "doc", sha |-> sha, date_ok |-> ok, date |-> d]

\* The documents the remote can answer a request for commit c with: its sha
\* is c or another one, its author date is valid or not.
Docs(c) ==
    {Doc(sha, TRUE, d) : sha \in {c, "b"}, d \in AuthorDates}
        \cup {Doc(sha, FALSE, 0) : sha \in {c, "b"}}

\* What a fetch ends with when the remote sends no document: the wait_for
\* times out, urlopen raises an HTTPError (an error status), or urlopen or
\* the decoding raises anything else (URLError, a body that is not JSON).
FailureKinds == {"timeout", "http_error", "url_error"}

Failure(k) == [kind |-> k, sha |-> "", date_ok |-> FALSE, date |-> 0]

\* The failures update_commit_info catches.
CaughtKinds == {"timeout", "http_error"}

\* The ends of a fetch for commit c.
Answers(c) == Docs(c) \cup {Failure(k) : k \in FailureKinds}

\* A file just created, and a file with the first part of a document.
EmptyFile == [kind |-> "empty", sha |-> "", date_ok |-> FALSE, date |-> 0]

Partial(doc) == [doc EXCEPT !.kind = "partial"]

\* A caller that is in no call.
Idle == [fn |-> "none", commit |-> ""]

\* An author date that is not set.
NoDate == [set |-> FALSE, t |-> 0]

Date(t) == [set |-> TRUE, t |-> t]

----------------------------------------------------------------------------
\* Pure functions

\* bytes.strip(): ASCII whitespace.
IsSpace(b) == b \in {9, 10, 11, 12, 13, 32}

RECURSIVE LStrip(_)
LStrip(s) == IF s # <<>> /\ IsSpace(Head(s)) THEN LStrip(Tail(s)) ELSE s

RECURSIVE RStrip(_)
RStrip(s) ==
    IF s # <<>> /\ IsSpace(s[Len(s)]) THEN RStrip(SubSeq(s, 1, Len(s) - 1)) ELSE s

Strip(s) == RStrip(LStrip(s))

\* bytes.decode("ascii") raises UnicodeDecodeError on a byte above 127.
IsAscii(s) == \A i \in 1..Len(s) : s[i] < 128

Chr(b) ==
    CASE b = 97 -> "a"
      [] b = 98 -> "b"
      [] b = 32 -> " "
      [] b = 10 -> "\n"
      [] OTHER -> "?"

RECURSIVE Decode(_)
Decode(s) == IF s = <<>> THEN "" ELSE Chr(Head(s)) \o Decode(Tail(s))

\* StoreCompleted without the strip.
StoreCompletedUnstripped(out, status) ==
    IF status # 0 THEN [revision_or_message |-> "cannot query", error |-> TRUE, set |-> TRUE]
    ELSE IF ~IsAscii(out) THEN [revision_or_message |-> "cannot query", error |-> TRUE, set |-> TRUE]
    ELSE [revision_or_message |-> Decode(out), error |-> FALSE, set |-> TRUE]

\* StoreCompleted without the test of the exit status.
StoreCompletedAnyStatus(out, status) ==
    IF ~IsAscii(Strip(out)) THEN [revision_or_message |-> "cannot query", error |-> TRUE, set |-> TRUE]
    ELSE [revision_or_message |-> Decode(Strip(out)), error |-> FALSE, set |-> TRUE]

\* get_nixos_revision's value when communicate() returned `out` and the
\* process reported status `status`, as run_and_store stores it.
StoreCompleted(out, status) ==
    IF status # 0 THEN CannotQuery                     \* CalledProcessError
    ELSE IF ~IsAscii(Strip(out)) THEN CannotQuery      \* UnicodeDecodeError
    ELSE RevisionResult(Decode(Strip(out)), FALSE)

\* An exception, with the exception that was being handled when it was raised.
Exc(type, context) == [type |-> type, context |-> context]

NoExc == Exc("none", "none")

\* The exception that leaves get_nixos_revision when `handled` is propagating
\* through the finally block and the process reported `status`: a non-zero
\* status raises CalledProcessError inside the finally block, which replaces
\* the propagating exception and keeps it as its __context__.
Leave(handled, status) ==
    IF status # 0 THEN Exc("CalledProcessError", handled.type) ELSE handled

\* IsTimeout without the test of __context__.
IsTimeoutNoContext(e) == e.type = "CancelledError"

\* run_and_store's test of the exception `e` it caught: a timeout, stored
\* after the sleep, or not.
IsTimeout(e) == e.type = "CancelledError" \/ e.context = "CancelledError"

----------------------------------------------------------------------------
Init ==
    /\ force \in BOOLEAN
    /\ config \in [nixos_version_timeout : QueryTimeouts,
                   notification_interval : NotificationIntervals,
                   max_time_since_update : MaxTimesSinceUpdate]
    /\ lastFile \in {NoFile, Garbage} \cup {Stamp(t) : t \in Times}
    /\ now = 0
    /\ mpc = "gate"
    /\ tpc = [h \in Hosts |-> "none"]
    /\ exc = [h \in Hosts |-> NoExc]
    /\ proc = [h \in Hosts |-> "none"]
    /\ rc = [h \in Hosts |-> 0]
    /\ waited = [h \in Hosts |-> FALSE]
    /\ sigs = [h \in Hosts |-> <<>>]
    /\ stdout = [h \in Hosts |-> <<>>]
    /\ atDeadline = [h \in Hosts |-> "none"]
    /\ expired = FALSE
    /\ results = [h \in Hosts |-> Unset]
    /\ revisions = [h \in Hosts |-> Unset]
    /\ cache \in [Commits -> {NoEntry, BadJson} \cup UNION {Docs(c) : c \in Commits}]
    /\ rpc = [h \in Hosts |-> "none"]
    /\ forced = [h \in Hosts |-> FALSE]
    /\ author_dates = [h \in Hosts |-> NoDate]
    /\ message = <<>>
    /\ shown = <<>>
    /\ cpc = [h \in Hosts |-> "idle"]
    /\ call = [h \in Hosts |-> Idle]
    /\ commit_info = [h \in Hosts |-> NoEntry]
    /\ temp = [h \in Hosts |-> NoEntry]
    /\ nfetch = [h \in Hosts |-> 0]
    /\ log = [h \in Hosts |-> <<>>]
    /\ answered = [c \in Commits |-> NoEntry]
    /\ changed = FALSE
    /\ clock = 0
    /\ started = [h \in Hosts |-> 0]
    /\ runs = 1
    /\ stamps = <<>>

----------------------------------------------------------------------------
\* get_last_notification_date: None (FALSE here) unless the file holds a
\* timestamp.
Readable(file) == file.kind = "stamp"

\* Suppressed with no run ever suppressed.
SuppressedNever(file, t) == FALSE

\* Suppressed with <= for <.
SuppressedInclusive(file, t) ==
    file.kind = "stamp" /\ t - file.t <= config.notification_interval

\* async_main's test of the last notification, read at time t.
Suppressed(file, t) ==
    Readable(file) /\ t - file.t < config.notification_interval

\* async_main up to the call of get_all_nixos_revisions.
Gate ==
    /\ mpc = "gate"
    /\ IF force
       THEN /\ mpc' = "begin"
            /\ now' = now
       ELSE \E t \in Times :
                /\ t >= now
                /\ now' = t
                /\ mpc' = IF Suppressed(lastFile, t) THEN "suppressed" ELSE "begin"
    /\ UNCHANGED <<force, config, lastFile, revisions>>
    /\ UNCHANGED cvars
    /\ UNCHANGED hvars
    /\ UNCHANGED tvars
    /\ UNCHANGED qvars
    /\ UNCHANGED rvars

\* get_all_nixos_revisions up to its await: gather() creates one task per
\* host.  With a timeout of 0 wait_for cancels the gather before any task
\* has run, and a task cancelled before its first step never enters
\* run_and_store's try block.  Otherwise every task runs to its first await,
\* the process launch, before the timer can expire.
BeginQuery ==
    /\ mpc = "begin"
    /\ mpc' = "query"
    /\ IF config.nixos_version_timeout <= 0
       THEN /\ tpc' = [h \in Hosts |-> "cancelled"]
            /\ atDeadline' = [h \in Hosts |-> "created"]
            /\ expired' = TRUE
       ELSE /\ tpc' = [h \in Hosts |-> "launch"]
            /\ UNCHANGED <<atDeadline, expired>>
    /\ UNCHANGED <<force, config, lastFile, now, revisions>>
    /\ UNCHANGED cvars
    /\ UNCHANGED hvars
    /\ UNCHANGED tvars
    /\ UNCHANGED <<exc, proc, rc, waited, sigs, stdout, results>>
    /\ UNCHANGED rvars

\* create_subprocess_exec returns the process.
LaunchOK(h) ==
    /\ mpc = "query" /\ tpc[h] = "launch"
    /\ tpc' = [tpc EXCEPT ![h] = "read"]
    /\ proc' = [proc EXCEPT ![h] = "running"]
    /\ UNCHANGED <<force, config, lastFile, now, mpc, revisions>>
    /\ UNCHANGED cvars
    /\ UNCHANGED hvars
    /\ UNCHANGED tvars
    /\ UNCHANGED rvars
    /\ UNCHANGED <<exc, rc, waited, sigs, stdout, atDeadline, expired, results>>

\* StoreLaunchFailure with a run_and_store that lets the OSError pass.
StoreLaunchFailureUncaught == [revision_or_message |-> "", error |-> FALSE, set |-> FALSE]

\* What run_and_store stores when create_subprocess_exec raises an OSError:
\* get_nixos_revision logs and re-raises it.
StoreLaunchFailure == IF IsTimeout(Exc("OSError", "none")) THEN TimedOut ELSE CannotQuery

\* create_subprocess_exec raises (no such executable, ...).
LaunchFail(h) ==
    /\ mpc = "query" /\ tpc[h] = "launch"
    /\ tpc' = [tpc EXCEPT ![h] = "done"]
    /\ proc' = [proc EXCEPT ![h] = "failed"]
    /\ results' = [results EXCEPT ![h] = StoreLaunchFailure]
    /\ UNCHANGED <<force, config, lastFile, now, mpc, revisions>>
    /\ UNCHANGED cvars
    /\ UNCHANGED hvars
    /\ UNCHANGED tvars
    /\ UNCHANGED rvars
    /\ UNCHANGED <<exc, rc, waited, sigs, stdout, atDeadline, expired>>

\* communicate(): the process closed its standard output; communicate goes
\* on to wait for the exit.
ReadEOF(h) ==
    /\ mpc = "query" /\ tpc[h] = "read"
    /\ tpc' = [tpc EXCEPT ![h] = "wait_exit"]
    /\ UNCHANGED <<force, config, lastFile, now, mpc, revisions>>
    /\ UNCHANGED cvars
    /\ UNCHANGED hvars
    /\ UNCHANGED tvars
    /\ UNCHANGED rvars
    /\ UNCHANGED <<exc, proc, rc, waited, sigs, stdout, atDeadline, expired, results>>

\* communicate() returns: the process ended by itself with `status` having
\* written `out`.  The finally block's p.wait() returns at once, and
\* run_and_store stores the outcome.
Complete(h, out, status) ==
    /\ mpc = "query" /\ tpc[h] = "wait_exit"
    /\ tpc' = [tpc EXCEPT ![h] = "done"]
    /\ proc' = [proc EXCEPT ![h] = "exited"]
    /\ rc' = [rc EXCEPT ![h] = status]
    /\ waited' = [waited EXCEPT ![h] = TRUE]
    /\ stdout' = [stdout EXCEPT ![h] = out]
    /\ results' = [results EXCEPT ![h] = StoreCompleted(out, status)]
    /\ UNCHANGED <<force, config, lastFile, now, mpc, revisions>>
    /\ UNCHANGED cvars
    /\ UNCHANGED hvars
    /\ UNCHANGED tvars
    /\ UNCHANGED rvars
    /\ UNCHANGED <<exc, sigs, atDeadline, expired>>

\* The except block of get_nixos_revision begins: increasingly_kill_process
\* sends SIGHUP and waits up to 1 second for the exit.
StartKill(h, e) ==
    /\ exc' = [exc EXCEPT ![h] = e]
    /\ sigs' = [sigs EXCEPT ![h] = Append(@, SIGHUP)]
    /\ tpc' = [tpc EXCEPT ![h] = "hup_wait"]

\* communicate() raises while reading ("error reading from process").
ReadError(h) ==
    /\ mpc = "query" /\ tpc[h] = "read"
    /\ StartKill(h, Exc("IOError", "none"))
    /\ UNCHANGED <<force, config, lastFile, now, mpc, revisions>>
    /\ UNCHANGED cvars
    /\ UNCHANGED hvars
    /\ UNCHANGED tvars
    /\ UNCHANGED rvars
    /\ UNCHANGED <<proc, rc, waited, stdout, atDeadline, expired, results>>

\* The signal increasingly_kill_process sends when the wait after the
\* previous one timed out, and where the task waits next: the loop sends
\* SIGTERM, then SIGKILL, and after it the finally block waits for the exit.
NextSignal(pc) == IF pc = "hup_wait" THEN SIGTERM ELSE SIGKILL

NextWait(pc) == IF pc = "hup_wait" THEN "term_wait" ELSE "final_wait"

\* wait_for(p.wait(), 1) times out: the process is still running.
Escalate(h) ==
    /\ mpc = "query" /\ tpc[h] \in {"hup_wait", "term_wait"}
    /\ sigs' = [sigs EXCEPT ![h] = Append(@, NextSignal(tpc[h]))]
    /\ tpc' = [tpc EXCEPT ![h] = NextWait(tpc[h])]
    /\ UNCHANGED <<force, config, lastFile, now, mpc, revisions>>
    /\ UNCHANGED cvars
    /\ UNCHANGED hvars
    /\ UNCHANGED tvars
    /\ UNCHANGED rvars
    /\ UNCHANGED <<exc, proc, rc, waited, stdout, atDeadline, expired, results>>

\* The process exits with `status` while the task is in
\* increasingly_kill_process or in the finally block's p.wait(): the loop
\* breaks, the except block re-raises, p.wait() returns `status` and
\* run_and_store catches what leaves get_nixos_revision.  A timeout is
\* stored only after the 5 seconds' sleep.
Killed(h, status) ==
    /\ mpc = "query" /\ tpc[h] \in {"hup_wait", "term_wait", "final_wait"}
    /\ proc' = [proc EXCEPT ![h] = "exited"]
    /\ rc' = [rc EXCEPT ![h] = status]
    /\ waited' = [waited EXCEPT ![h] = TRUE]
    /\ exc' = [exc EXCEPT ![h] = Leave(exc[h], status)]
    /\ IF IsTimeout(Leave(exc[h], status))
       THEN /\ tpc' = [tpc EXCEPT ![h] = "settle"]
            /\ UNCHANGED results
       ELSE /\ tpc' = [tpc EXCEPT ![h] = "done"]
            /\ results' = [results EXCEPT ![h] = CannotQuery]
    /\ UNCHANGED <<force, config, lastFile, now, mpc, revisions>>
    /\ UNCHANGED cvars
    /\ UNCHANGED hvars
    /\ UNCHANGED tvars
    /\ UNCHANGED rvars
    /\ UNCHANGED <<sigs, stdout, atDeadline, expired>>

\* asyncio.sleep(5) in run_and_store returns and the timeout is stored.
Settle(h) ==
    /\ mpc = "query" /\ tpc[h] = "settle"
    /\ tpc' = [tpc EXCEPT ![h] = "done"]
    /\ results' = [results EXCEPT ![h] = TimedOut]
    /\ UNCHANGED <<force, config, lastFile, now, mpc, revisions>>
    /\ UNCHANGED cvars
    /\ UNCHANGED hvars
    /\ UNCHANGED tvars
    /\ UNCHANGED rvars
    /\ UNCHANGED <<exc, proc, rc, waited, sigs, stdout, atDeadline, expired>>

\* CancelPc with a run_and_store that does not catch a CancelledError raised
\* by the launch.
CancelPcLaunchUncaught(pc) ==
    CASE pc = "launch" -> "cancelled"
      [] pc \in {"read", "wait_exit"} -> "hup_wait"
      [] pc \in {"hup_wait", "term_wait"} -> "final_wait"
      [] pc = "final_wait" -> "settle"
      [] OTHER -> pc

\* Where a task goes on when it is cancelled at `pc`:
\*   launch: get_nixos_revision re-raises the CancelledError and
\*     run_and_store sleeps before it stores the timeout;
\*   read, wait_exit (both inside communicate): the except block starts
\*     increasingly_kill_process;
\*   hup_wait, term_wait (inside increasingly_kill_process, reached before the
\*     deadline only after a read error): the CancelledError leaves the
\*     except block and the finally block waits for the exit;
\*   final_wait: the CancelledError leaves the finally block.
CancelPc(pc) ==
    CASE pc = "launch" -> "settle"
      [] pc \in {"read", "wait_exit"} -> "hup_wait"
      [] pc \in {"hup_wait", "term_wait"} -> "final_wait"
      [] pc = "final_wait" -> "settle"
      [] OTHER -> pc

CancelSigs(pc, s) == IF pc \in {"read", "wait_exit"} THEN Append(s, SIGHUP) ELSE s

CancelExc(pc, e) ==
    IF pc \in {"launch", "read", "wait_exit", "hup_wait", "term_wait", "final_wait"}
    THEN Exc("CancelledError", e.type)
    ELSE e

\* Deadline with the results recorded so far dropped.
DeadlineDiscards ==
    /\ mpc = "query" /\ ~expired
    /\ \E h \in Hosts : tpc[h] # "done"
    /\ expired' = TRUE
    /\ atDeadline' = [h \in Hosts |-> tpc[h]]
    /\ tpc' = [h \in Hosts |-> CancelPc(tpc[h])]
    /\ sigs' = [h \in Hosts |-> CancelSigs(tpc[h], sigs[h])]
    /\ exc' = [h \in Hosts |-> CancelExc(tpc[h], exc[h])]
    /\ results' = [h \in Hosts |-> Unset]
    /\ UNCHANGED <<force, config, lastFile, now, mpc, revisions>>
    /\ UNCHANGED cvars
    /\ UNCHANGED hvars
    /\ UNCHANGED tvars
    /\ UNCHANGED rvars
    /\ UNCHANGED <<proc, rc, waited, stdout>>

\* The timer of wait_for expires: the gather is cancelled, which cancels
\* every task that has not finished.
Deadline ==
    /\ mpc = "query" /\ ~expired
    /\ \E h \in Hosts : tpc[h] # "done"
    /\ expired' = TRUE
    /\ atDeadline' = [h \in Hosts |-> tpc[h]]
    /\ tpc' = [h \in Hosts |-> CancelPc(tpc[h])]
    /\ sigs' = [h \in Hosts |-> CancelSigs(tpc[h], sigs[h])]
    /\ exc' = [h \in Hosts |-> CancelExc(tpc[h], exc[h])]
    /\ UNCHANGED <<force, config, lastFile, now, mpc, revisions>>
    /\ UNCHANGED cvars
    /\ UNCHANGED hvars
    /\ UNCHANGED tvars
    /\ UNCHANGED rvars
    /\ UNCHANGED <<proc, rc, waited, stdout, results>>

\* get_all_nixos_revisions returns: every task has finished (wait_for waits
\* for the cancelled gather, and the gather for all of its tasks).
QueryReturn ==
    /\ mpc = "query"
    /\ \A h \in Hosts : tpc[h] \in {"done", "cancelled"}
    /\ revisions' = results
    /\ mpc' = "begin_resolve"
    /\ tpc' = [h \in Hosts |-> "none"]
    /\ exc' = [h \in Hosts |-> NoExc]
    /\ proc' = [h \in Hosts |-> "none"]
    /\ rc' = [h \in Hosts |-> 0]
    /\ waited' = [h \in Hosts |-> FALSE]
    /\ sigs' = [h \in Hosts |-> <<>>]
    /\ stdout' = [h \in Hosts |-> <<>>]
    /\ atDeadline' = [h \in Hosts |-> "none"]
    /\ expired' = FALSE
    /\ results' = [h \in Hosts |-> Unset]
    /\ UNCHANGED <<force, config, lastFile, now>>
    /\ UNCHANGED cvars
    /\ UNCHANGED hvars
    /\ UNCHANGED tvars
    /\ UNCHANGED rvars

----------------------------------------------------------------------------
\* Hit without the test of the sha.
HitAnySha(c) == cache[c].kind = "doc"

\* Hit with no cache file ever accepted.
HitNever(c) == FALSE

\* get_commit_info's test of the cache file of commit c: it exists, parses
\* and its sha is c.
Hit(c) == cache[c].kind = "doc" /\ cache[c].sha = c

\* get_author_date's result for a document: its author date if
\* fromisoformat accepts it.
DateOf(doc) == IF doc.date_ok THEN Date(doc.date) ELSE NoDate

\* Where get_and_store is at its first await, for the result `r` of a host:
\* no task without a result, done for an error, done for a cache hit with a
\* valid date, otherwise in the fetch of update_commit_info.
FirstPc(r) ==
    IF ~r.set THEN "none"
    ELSE IF r.error THEN "done"
    ELSE IF Hit(r.revision_or_message) /\ cache[r.revision_or_message].date_ok
         THEN "done"
    ELSE "fetch"

\* async_main from the return of get_all_nixos_revisions to its await of the
\* gather: every get_and_store task runs to its first await.  A cache hit
\* whose date does not parse makes get_author_date call itself with
\* update_commit_info.
BeginResolve ==
    /\ mpc = "begin_resolve"
    /\ mpc' = "resolve"
    /\ rpc' = [h \in Hosts |-> FirstPc(revisions[h])]
    /\ forced' = [h \in Hosts |->
                    FirstPc(revisions[h]) = "fetch" /\ Hit(revisions[h].revision_or_message)]
    /\ author_dates' = [h \in Hosts |->
                          IF FirstPc(revisions[h]) = "done" /\ ~revisions[h].error
                          THEN DateOf(cache[revisions[h].revision_or_message])
                          ELSE NoDate]
    /\ UNCHANGED <<force, config, lastFile, now, revisions, cache, message, shown>>
    /\ UNCHANGED cvars
    /\ UNCHANGED hvars
    /\ UNCHANGED tvars
    /\ UNCHANGED qvars

\* update_commit_info's fetch times out or answers with an HTTP error
\* status: it returns None, and so does get_author_date.
FetchFail(h) ==
    /\ mpc = "resolve" /\ rpc[h] = "fetch"
    /\ rpc' = [rpc EXCEPT ![h] = "done"]
    /\ UNCHANGED <<force, config, lastFile, now, mpc, revisions>>
    /\ UNCHANGED cvars
    /\ UNCHANGED hvars
    /\ UNCHANGED tvars
    /\ UNCHANGED <<cache, forced, author_dates, message, shown>>
    /\ UNCHANGED qvars

\* update_commit_info's fetch raises anything else (URLError, a body that is
\* not JSON): nothing on the way catches it and the gather raises it in
\* async_main.
FetchRaise(h) ==
    /\ mpc = "resolve" /\ rpc[h] = "fetch"
    /\ mpc' = "crashed"
    /\ UNCHANGED <<force, config, lastFile, now, revisions>>
    /\ UNCHANGED cvars
    /\ UNCHANGED hvars
    /\ UNCHANGED tvars
    /\ UNCHANGED rvars
    /\ UNCHANGED qvars

\* update_commit_info's fetch returns a document before wait_for's timer
\* expires: it is written to the cache file of the commit and returned.
\* get_author_date returns its date, or fetches once more, with a timer of
\* its own, if the date does not parse and this call was made with
\* get_commit_info.
FetchOK(h, doc) ==
    /\ mpc = "resolve" /\ rpc[h] = "fetch"
    /\ clock - started[h] < HttpTimeout
    /\ doc \in Docs(revisions[h].revision_or_message)
    /\ cache' = [cache EXCEPT ![revisions[h].revision_or_message] = doc]
    /\ IF doc.date_ok \/ forced[h]
       THEN /\ rpc' = [rpc EXCEPT ![h] = "done"]
            /\ author_dates' = [author_dates EXCEPT ![h] = DateOf(doc)]
            /\ UNCHANGED <<forced, started>>
       ELSE /\ forced' = [forced EXCEPT ![h] = TRUE]
            /\ started' = [started EXCEPT ![h] = clock]
            /\ UNCHANGED <<rpc, author_dates>>
    /\ UNCHANGED <<force, config, lastFile, now, mpc, revisions, message, shown>>
    /\ UNCHANGED cvars
    /\ UNCHANGED hvars
    /\ UNCHANGED clock
    /\ UNCHANGED qvars

\* timedelta.days
Days(age) == age \div TicksPerDay

\* Lines with the message of an error result dropped.
LinesAllUnknown(h, t) ==
    IF ~author_dates[h].set
    THEN <<h \o ": " \o "unknown">>
    ELSE IF t - author_dates[h].t >= config.max_time_since_update
         THEN <<h \o ": " \o ToString(Days(t - author_dates[h].t)) \o " days">>
    ELSE <<>>

\* Lines with no line for a host without an author date and without an error.
LinesOmitUnresolved(h, t) ==
    IF ~author_dates[h].set
    THEN IF revisions[h].error
         THEN <<h \o ": " \o revisions[h].revision_or_message>>
         ELSE <<>>
    ELSE IF t - author_dates[h].t >= config.max_time_since_update
         THEN <<h \o ": " \o ToString(Days(t - author_dates[h].t)) \o " days">>
    ELSE <<>>

\* Lines with > for >= in the test of the age.
LinesStrict(h, t) ==
    IF ~author_dates[h].set
    THEN <<h \o ": " \o (IF revisions[h].error
                          THEN revisions[h].revision_or_message
                          ELSE "unknown")>>
    ELSE IF t - author_dates[h].t > config.max_time_since_update
         THEN <<h \o ": " \o ToString(Days(t - author_dates[h].t)) \o " days">>
    ELSE <<>>

\* The lines async_main appends to message for a host at time t.
Lines(h, t) ==
    IF ~author_dates[h].set
    THEN <<h \o ": " \o (IF revisions[h].error
                          THEN revisions[h].revision_or_message
                          ELSE "unknown")>>
    ELSE IF t - author_dates[h].t >= config.max_time_since_update
         THEN <<h \o ": " \o ToString(Days(t - author_dates[h].t)) \o " days">>
    ELSE <<>>

RECURSIVE Report(_, _)
Report(hosts, t) ==
    IF hosts = <<>> THEN <<>> ELSE Lines(Head(hosts), t) \o Report(Tail(hosts), t)

\* "\n".join(message)
RECURSIVE Join(_)
Join(lines) ==
    IF Len(lines) = 1 THEN Head(lines) ELSE Head(lines) \o "\n" \o Join(Tail(lines))

\* datetime.isoformat(timespec="seconds") drops the fraction of a second.
Isoformat(t) == t - (t % TicksPerSecond)

\* The gather of async_main returns: the report is built and, unless it is
\* empty, shown by notify, which then writes the last-notification file.
BuildReport ==
    /\ mpc = "resolve"
    /\ \A h \in Hosts : rpc[h] \in {"none", "done"}
    /\ \E t \in Times :
        /\ t >= now
        /\ now' = t
        /\ message' = Report(HostOrder, t)
        /\ IF Report(HostOrder, t) # <<>>
           THEN /\ shown' = Append(shown, Join(Report(HostOrder, t)))
                /\ lastFile' = Stamp(Isoformat(t))
                /\ stamps' = Append(stamps, Isoformat(t))
           ELSE UNCHANGED <<shown, lastFile, stamps>>
    /\ mpc' = "done"
    /\ UNCHANGED <<force, config, revisions, cache, rpc, forced, author_dates>>
    /\ UNCHANGED cvars
    /\ UNCHANGED runs
    /\ UNCHANGED tvars
    /\ UNCHANGED qvars

Next ==
    \/ Gate
    \/ BeginQuery
    \/ \E h \in Hosts : LaunchOK(h)
    \/ \E h \in Hosts : LaunchFail(h)
    \/ \E h \in Hosts : ReadEOF(h)
    \/ \E h \in Hosts : ReadError(h)
    \/ \E h \in Hosts, out \in Outputs, status \in ExitStatuses : Complete(h, out, status)
    \/ \E h \in Hosts : Escalate(h)
    \/ \E h \in Hosts, status \in ExitStatuses : Killed(h, status)
    \/ \E h \in Hosts : Settle(h)
    \/ Deadline
    \/ QueryReturn
    \/ BeginResolve
    \/ \E h \in Hosts : FetchFail(h)
    \/ \E h \in Hosts : FetchRaise(h)
    \/ \E h \in Hosts, doc \in UNION {Docs(c) : c \in Commits} : FetchOK(h, doc)
    \/ BuildReport

Spec == Init /\ [][Next]_vars

\* The runs of the program one after the other.
MaxRuns == 2

\* The process has ended and the program is started again, later and with
\* the same arguments and configuration: the files are what is left of the
\* run before.
NextRun ==
    /\ mpc \in {"done", "suppressed", "crashed"}
    /\ runs < MaxRuns
    /\ runs' = runs + 1
    /\ mpc' = "gate"
    /\ revisions' = [h \in Hosts |-> Unset]
    /\ rpc' = [h \in Hosts |-> "none"]
    /\ forced' = [h \in Hosts |-> FALSE]
    /\ author_dates' = [h \in Hosts |-> NoDate]
    /\ message' = <<>>
    /\ shown' = <<>>
    /\ clock' = 0
    /\ started' = [h \in Hosts |-> 0]
    /\ UNCHANGED <<force, config, lastFile, now, cache, stamps>>
    /\ UNCHANGED cvars
    /\ UNCHANGED qvars

NextRuns == Next \/ NextRun

\* Runs without the force flag that begin with an empty cache directory.
InitRuns ==
    /\ Init
    /\ ~force
    /\ config.nixos_version_timeout = 30
    /\ lastFile = NoFile
    /\ cache = [c \in Commits |-> NoEntry]

SpecRuns == InitRuns /\ [][NextRuns]_vars

\* Time passes while a fetch is pending; wait_for lets no fetch go on past
\* http_timeout.
Tick ==
    /\ mpc = "resolve"
    /\ \E h \in Hosts : rpc[h] = "fetch"
    /\ \A h \in Hosts : rpc[h] = "fetch" => clock - started[h] < HttpTimeout
    /\ clock' = clock + 1
    /\ UNCHANGED started
    /\ UNCHANGED <<force, config, lastFile, now, mpc, revisions>>
    /\ UNCHANGED cvars
    /\ UNCHANGED hvars
    /\ UNCHANGED rvars
    /\ UNCHANGED qvars

\* A run with the clock of the commit resolution.
NextTimed == Next \/ Tick

\* A forced run with the cache directory in any state.
InitTimed ==
    /\ Init
    /\ force
    /\ lastFile = NoFile

SpecTimed == InitTimed /\ [][NextTimed]_vars

\* A forced run that starts with an empty cache directory.
InitQuery ==
    /\ Init
    /\ force
    /\ lastFile = NoFile
    /\ cache = [c \in Commits |-> NoEntry]

SpecQuery == InitQuery /\ [][Next]_vars

----------------------------------------------------------------------------
\* The commit cache by itself: callers (the tasks of one process, or
\* processes that overlap) call get_commit_info and get_author_date for a
\* commit one call after another, and the steps of update_commit_info's
\* write are taken one at a time.

\* The calls the callers make in all.
MaxCalls == 2

\* The variables of a run that no call of the commit cache changes.
mvars == <<force, config, lastFile, now, mpc, revisions, rpc, author_dates,
           message, shown, tvars, hvars>>

\* One entry of a caller's log: the call, how it ended ("value", "none" for
\* None, "raised"), the document or date returned, the fetches it made.
Entry(f, c, outcome, doc, date, n) ==
    [fn |-> f, commit |-> c, outcome |-> outcome, doc |-> doc, date |-> date,
     fetches |-> n]

\* The calls made so far, the pending ones included.
RECURSIVE Calls(_)
Calls(hosts) ==
    IF hosts = <<>> THEN 0
    ELSE Len(log[Head(hosts)]) + (IF cpc[Head(hosts)] = "idle" THEN 0 ELSE 1)
            + Calls(Tail(hosts))

\* The call f(c) of caller h ends after n fetches.
Return(h, f, c, outcome, doc, date, n) ==
    /\ log' = [log EXCEPT ![h] = Append(@, Entry(f, c, outcome, doc, date, n))]
    /\ cpc' = [cpc EXCEPT ![h] = "idle"]
    /\ call' = [call EXCEPT ![h] = Idle]
    /\ nfetch' = [nfetch EXCEPT ![h] = 0]
    /\ commit_info' = [commit_info EXCEPT ![h] = NoEntry]

\* get_commit_info(c) is called: it returns the file's document on a hit
\* and calls update_commit_info otherwise.
CallCommitInfo(h, c) ==
    /\ cpc[h] = "idle" /\ Calls(HostOrder) < MaxCalls
    /\ IF Hit(c)
       THEN /\ Return(h, "get_commit_info", c, "value", cache[c], NoDate, 0)
            /\ UNCHANGED forced
       ELSE /\ cpc' = [cpc EXCEPT ![h] = "fetch"]
            /\ call' = [call EXCEPT ![h] = [fn |-> "get_commit_info", commit |-> c]]
            /\ forced' = [forced EXCEPT ![h] = FALSE]
            /\ UNCHANGED <<log, nfetch, commit_info>>
    /\ UNCHANGED <<cache, temp, answered, changed>>
    /\ UNCHANGED mvars
    /\ UNCHANGED qvars

\* get_author_date(c) is called: it calls get_commit_info and returns the
\* date of a hit; a hit whose date does not parse makes it call itself with
\* update_commit_info.
CallAuthorDate(h, c) ==
    /\ cpc[h] = "idle" /\ Calls(HostOrder) < MaxCalls
    /\ IF Hit(c) /\ cache[c].date_ok
       THEN /\ Return(h, "get_author_date", c, "value", cache[c], DateOf(cache[c]), 0)
            /\ UNCHANGED forced
       ELSE /\ cpc' = [cpc EXCEPT ![h] = "fetch"]
            /\ call' = [call EXCEPT ![h] = [fn |-> "get_author_date", commit |-> c]]
            /\ forced' = [forced EXCEPT ![h] = Hit(c)]
            /\ UNCHANGED <<log, nfetch, commit_info>>
    /\ UNCHANGED <<cache, temp, answered, changed>>
    /\ UNCHANGED mvars
    /\ UNCHANGED qvars

\* update_commit_info has returned `doc` (a document) to caller h after n
\* fetches of the call: get_commit_info returns it; get_author_date returns
\* its date, or None if the date does not parse and update_commit_info was
\* called directly, or else calls itself with update_commit_info.
Updated(h, doc, n) ==
    IF call[h].fn = "get_commit_info"
    THEN /\ Return(h, call[h].fn, call[h].commit, "value", doc, NoDate, n)
         /\ UNCHANGED forced
    ELSE IF doc.date_ok
    THEN /\ Return(h, call[h].fn, call[h].commit, "value", doc, DateOf(doc), n)
         /\ UNCHANGED forced
    ELSE IF forced[h]
    THEN /\ Return(h, call[h].fn, call[h].commit, "none", NoEntry, NoDate, n)
         /\ UNCHANGED forced
    ELSE /\ forced' = [forced EXCEPT ![h] = TRUE]
         /\ cpc' = [cpc EXCEPT ![h] = "fetch"]
         /\ commit_info' = [commit_info EXCEPT ![h] = NoEntry]
         /\ nfetch' = [nfetch EXCEPT ![h] = n]
         /\ UNCHANGED <<log, call>>

\* The fetch of caller h ends with `a`.  A timeout and an HTTP error make
\* update_commit_info return None, and so do get_commit_info and
\* get_author_date; any other failure is raised to the caller; a document
\* goes on to be written.
Answer(h, a) ==
    /\ cpc[h] = "fetch"
    /\ a \in Answers(call[h].commit)
    /\ answered' = [answered EXCEPT ![call[h].commit] = a]
    /\ changed' = (changed \/ answered[call[h].commit] \notin {NoEntry, a})
    /\ IF a.kind \in CaughtKinds
       THEN Return(h, call[h].fn, call[h].commit, "none", NoEntry, NoDate, nfetch[h] + 1)
       ELSE IF a.kind \in FailureKinds
       THEN Return(h, call[h].fn, call[h].commit, "raised", NoEntry, NoDate, nfetch[h] + 1)
       ELSE /\ commit_info' = [commit_info EXCEPT ![h] = a]
            /\ nfetch' = [nfetch EXCEPT ![h] = @ + 1]
            /\ cpc' = [cpc EXCEPT ![h] = "create"]
            /\ UNCHANGED <<log, call>>
    /\ UNCHANGED <<cache, temp, forced>>
    /\ UNCHANGED mvars
    /\ UNCHANGED qvars

\* TempFile with the final path in place of the temporary file.
TempFileInPlace(h, c) == [dir |-> "commit-info", name |-> c]

\* update_commit_info's temp_file: the file named like the commit in the
\* caller's own temporary directory.
TempFile(h, c) == [dir |-> "temp", name |-> h]

\* The content of the file at a path.
ReadAt(path) == IF path.dir = "temp" THEN temp[path.name] ELSE cache[path.name]

\* The file at a path gets a content.
WriteTo(path, content) ==
    IF path.dir = "temp"
    THEN /\ temp' = [temp EXCEPT ![path.name] = content]
         /\ UNCHANGED cache
    ELSE /\ cache' = [cache EXCEPT ![path.name] = content]
         /\ UNCHANGED temp

\* open(temp_file, "x") creates the file.
CreateTemp(h) ==
    /\ cpc[h] = "create"
    /\ WriteTo(TempFile(h, call[h].commit), EmptyFile)
    /\ cpc' = [cpc EXCEPT ![h] = "dump"]
    /\ UNCHANGED <<call, commit_info, nfetch, log, answered, changed, forced>>
    /\ UNCHANGED mvars
    /\ UNCHANGED qvars

\* json.dump and fp.write: the document reaches the file in two parts.
Dump(h) ==
    /\ cpc[h] \in {"dump", "dump_rest"}
    /\ IF cpc[h] = "dump"
       THEN /\ WriteTo(TempFile(h, call[h].commit), Partial(commit_info[h]))
            /\ cpc' = [cpc EXCEPT ![h] = "dump_rest"]
       ELSE /\ WriteTo(TempFile(h, call[h].commit), commit_info[h])
            /\ cpc' = [cpc EXCEPT ![h] = "replace"]
    /\ UNCHANGED <<call, commit_info, nfetch, log, answered, changed, forced>>
    /\ UNCHANGED mvars
    /\ UNCHANGED qvars

\* os.replace moves the temporary file to <cache>/commit-info/<commit>, the
\* temporary directory is removed and update_commit_info returns.
Replace(h) ==
    /\ cpc[h] = "replace"
    /\ IF TempFile(h, call[h].commit).dir = "temp"
       THEN /\ cache' = [cache EXCEPT ![call[h].commit] = ReadAt(TempFile(h, call[h].commit))]
            /\ temp' = [temp EXCEPT ![h] = NoEntry]
       ELSE UNCHANGED <<cache, temp>>
    /\ Updated(h, commit_info[h], nfetch[h])
    /\ UNCHANGED <<answered, changed>>
    /\ UNCHANGED mvars
    /\ UNCHANGED qvars

\* The process is killed: its tasks end where they are and what they held
\* in memory is gone; the files stay as they are.
Crash ==
    /\ \E h \in Hosts : cpc[h] \notin {"idle", "dead"}
    /\ cpc' = [h \in Hosts |-> "dead"]
    /\ call' = [h \in Hosts |-> Idle]
    /\ commit_info' = [h \in Hosts |-> NoEntry]
    /\ nfetch' = [h \in Hosts |-> 0]
    /\ log' = [h \in Hosts |-> <<>>]
    /\ UNCHANGED <<cache, temp, answered, changed, forced>>
    /\ UNCHANGED mvars
    /\ UNCHANGED qvars

NextCache ==
    \/ \E h \in Hosts, c \in Commits : CallCommitInfo(h, c)
    \/ \E h \in Hosts, c \in Commits : CallAuthorDate(h, c)
    \/ \E h \in Hosts, a \in UNION {Answers(c) : c \in Commits} : Answer(h, a)
    \/ \E h \in Hosts : CreateTemp(h)
    \/ \E h \in Hosts : Dump(h)
    \/ \E h \in Hosts : Replace(h)
    \/ Crash

\* The cache directory in any state; the run itself does not advance.
InitCache ==
    /\ Init
    /\ force
    /\ lastFile = NoFile
    /\ config.nixos_version_timeout = 30
    /\ config.notification_interval = TicksPerSecond

SpecCache == InitCache /\ [][NextCache]_vars

----------------------------------------------------------------------------
\* Properties

\* The task of host h has finished.
Finished(h) == tpc[h] \in {"done", "cancelled"}

\* The places of a task at which its process exists and is running.
RunningPcs == {"read", "wait_exit", "hup_wait", "term_wait", "final_wait"}

\* The task of h ran communicate() to its end (no exception was handled).
Completed(h) == tpc[h] = "done" /\ proc[h] = "exited" /\ exc[h] = NoExc

\* C1: a host whose process was still running when the query timeout
\* expired has the result RevisionResult("query timed out", error=True),
\* whichever signal ended the process and whatever status it reported.
C1_TimedOutWhateverStatus ==
    \A h \in Hosts :
        (mpc = "query" /\ Finished(h) /\ atDeadline[h] \in RunningPcs)
            => results[h] = RevisionResult("query timed out", TRUE)

\* C1 witness: a process cancelled during the read exits with status 0 after
\* the hangup signal alone, and the timeout is stored.
C1_Witness ==
    /\ tpc["h1"] = "done" /\ atDeadline["h1"] = "read"
    /\ sigs["h1"] = <<SIGHUP>> /\ proc["h1"] = "exited" /\ rc["h1"] = 0
    /\ results["h1"] = RevisionResult("query timed out", TRUE)

\* C2: once the task of a host has finished (its result is stored), every
\* process spawned for the host has exited and the task's wait for it has
\* returned.
C2_ProcessWaited ==
    \A h \in Hosts :
        (mpc = "query" /\ Finished(h) /\ proc[h] \notin {"none", "failed"})
            => (proc[h] = "exited" /\ waited[h])

\* C3 as claimed: a command that prints any text and exits with status 0
\* before the timeout has the stripped text as its result.
C3_AnyText ==
    \A h \in Hosts :
        (mpc = "query" /\ Completed(h) /\ rc[h] = 0)
            => results[h] = RevisionResult(Decode(Strip(stdout[h])), FALSE)

\* C3 amended: a command that prints ASCII text and exits with status 0
\* before the timeout has the stripped text as its result, whatever the
\* other hosts do.
C3_AsciiText ==
    \A h \in Hosts :
        (mpc = "query" /\ Completed(h) /\ rc[h] = 0 /\ IsAscii(stdout[h]))
            => /\ results[h] = RevisionResult(Decode(Strip(stdout[h])), FALSE)
               /\ (stdout[h] \in {<<97, 10>>, <<32, 97, 32>>}
                      => results[h].revision_or_message = "a")

\* C3 witness: " a " is stored as "a" while the other host timed out.
C3_Witness ==
    /\ Completed("h1") /\ rc["h1"] = 0 /\ stdout["h1"] = <<32, 97, 32>>
    /\ results["h1"] = RevisionResult("a", FALSE)
    /\ results["h2"] = RevisionResult("query timed out", TRUE)

\* C4: a command that ends by itself before the timeout with a status
\* other than 0 has the result RevisionResult("cannot query", error=True).
C4_CannotQuery ==
    \A h \in Hosts :
        (mpc = "query" /\ Completed(h) /\ rc[h] # 0)
            => results[h] = RevisionResult("cannot query", TRUE)

\* C4 witness: a process ended by a hangup signal nobody here sent.
C4_Witness ==
    /\ Completed("h1") /\ rc["h1"] = -SIGHUP /\ sigs["h1"] = <<>>
    /\ results["h1"] = RevisionResult("cannot query", TRUE)

\* C5: a host whose launch was still pending when the timeout expired has
\* no process and the result RevisionResult("query timed out", error=True).
C5_TimeoutDuringLaunch ==
    \A h \in Hosts :
        (mpc = "query" /\ Finished(h) /\ atDeadline[h] = "launch")
            => /\ results[h] = RevisionResult("query timed out", TRUE)
               /\ proc[h] = "none"

\* C5 witness: get_all_nixos_revisions has returned the timeout of a host
\* cancelled in its launch.
C5_Witness ==
    /\ tpc["h1"] = "done" /\ tpc["h2"] = "done" /\ atDeadline["h1"] = "launch"
    /\ results["h1"] = RevisionResult("query timed out", TRUE)
    /\ ENABLED QueryReturn

\* C6: every task that has finished has stored a result for its host, with
\* error=True unless the command ran to its end with status 0 and ASCII
\* output.
C6_EveryFailureCaptured ==
    \A h \in Hosts :
        (mpc = "query" /\ Finished(h))
            => /\ results[h].set
               /\ (~(Completed(h) /\ rc[h] = 0 /\ IsAscii(stdout[h])) => results[h].error)

\* C7 as claimed: a failed launch stores no result and aborts the run.
C7_LaunchFailureAborts ==
    \A h \in Hosts : proc[h] = "failed" => (~results[h].set /\ mpc = "crashed")

\* C7 amended: a failed launch is stored as RevisionResult("cannot query",
\* error=True) and the task ends; the run is aborted only by an exception of
\* a commit fetch, never in the host query phase.
C7_LaunchFailureRecovered ==
    /\ \A h \in Hosts :
          proc[h] = "failed"
              => (tpc[h] = "done" /\ mpc = "query"
                      /\ results[h] = RevisionResult("cannot query", TRUE))
    /\ mpc = "crashed" => \E h \in Hosts : rpc[h] = "fetch"

\* C7 witness: the launch of h1 failed and h2 went on to report "a".
C7_Witness ==
    /\ proc["h1"] = "failed" /\ results["h1"] = RevisionResult("cannot query", TRUE)
    /\ results["h2"] = RevisionResult("a", FALSE)
    /\ ENABLED QueryReturn

\* The report has the line "<h>: <text>".
HasLine(h, text) == \E i \in 1..Len(message) : message[i] = h \o ": " \o text

\* The texts of the lines of a report.
Texts ==
    {"unknown", "query timed out", "cannot query"}
        \cup {ToString(Days(t - d)) \o " days" : t \in Times, d \in AuthorDates}

\* The places at which a started task can be when the deadline expires.
StartedPcs == {"launch"} \cup RunningPcs

\* C8 as claimed: a host whose query was pending when the deadline expired
\* has no entry in the returned results.
C8_PendingLeftUnset ==
    \A h \in Hosts :
        (mpc = "query" /\ Finished(h) /\ atDeadline[h] \in StartedPcs) => ~results[h].set

\* C8 amended: get_all_nixos_revisions returns its results as they are once
\* every task has finished; a host whose started query was pending when the
\* deadline expired then has the entry RevisionResult("query timed out",
\* error=True), and only a host whose task was cancelled before it started
\* (a timeout of 0) has none; the report has "<host>: query timed out" for
\* the first and "<host>: unknown" for the second.
C8_PendingTimedOut ==
    /\ [][(mpc = "query" /\ mpc' # "query")
            => /\ revisions' = results
               /\ \A h \in Hosts :
                    /\ Finished(h)
                    /\ atDeadline[h] \in StartedPcs
                          => results[h] = RevisionResult("query timed out", TRUE)
                    /\ atDeadline[h] = "created" => ~results[h].set]_vars
    /\ [](mpc = "done" =>
            \A h \in Hosts :
                /\ revisions[h] = RevisionResult("query timed out", TRUE)
                      => (HasLine(h, "query timed out") /\ ~HasLine(h, "unknown"))
                /\ ~revisions[h].set => HasLine(h, "unknown"))

\* C8 witness: the report with the line of a host that timed out.
C8_Witness ==
    /\ mpc = "done"
    /\ revisions["h1"] = RevisionResult("query timed out", TRUE)
    /\ HasLine("h1", "query timed out")
    /\ shown # <<>>

\* A host reported a revision and get_author_date returned None for it.
Unresolved(h) == revisions[h].set /\ ~revisions[h].error /\ ~author_dates[h].set

\* C9 as claimed: the report has no line for a host that reported a
\* revision for which no author date was resolved.
C9_UnresolvedOmitted ==
    mpc = "done" =>
        \A h \in Hosts : Unresolved(h) => \A text \in Texts : ~HasLine(h, text)

\* C9 amended: the report has the line "<host>: unknown" for a host that
\* reported a revision for which no author date was resolved, so a
\* notification is shown.
C9_UnresolvedUnknown ==
    mpc = "done" =>
        \A h \in Hosts :
            Unresolved(h) =>
                /\ HasLine(h, "unknown")
                /\ shown = <<Join(message)>>

\* C9 witness: the only line of the report is that of a host without an
\* author date.
C9_Witness ==
    /\ mpc = "done"
    /\ Unresolved("h1")
    /\ author_dates["h2"].set
    /\ message = <<"h1: unknown">>
    /\ shown = <<"h1: unknown">>

\* C10: the run ends at the gate exactly when the force flag is not set and
\* the last-notification file holds a timestamp less than
\* notification_interval before now; it has then spawned no process,
\* fetched nothing and shown nothing, and does nothing more.  In every
\* other case it goes on to the queries.
C10_Gate ==
    /\ [][mpc = "gate" =>
            /\ mpc' \in {"suppressed", "begin"}
            /\ mpc' = "suppressed"
                  <=> /\ ~force
                      /\ lastFile.kind = "stamp"
                      /\ now' - lastFile.t < config.notification_interval]_vars
    /\ [][mpc # "suppressed"]_vars
    /\ [](mpc = "suppressed" =>
            /\ \A h \in Hosts : proc[h] = "none" /\ tpc[h] = "none" /\ rpc[h] = "none"
            /\ shown = <<>>)

\* C10 witness: a run suppressed by a notification one tick old.
C10_Witness ==
    /\ mpc = "suppressed" /\ ~force
    /\ lastFile = Stamp(1) /\ now = 2

\* The number of lines of the report that are "<h>: <text>" for some text.
LinesOf(h) ==
    Cardinality({i \in 1..Len(message) : \E text \in Texts : message[i] = h \o ": " \o text})

\* C11: for every host with an author date, the report has the one line
\* "<host>: <N> days", N the whole days of now - date, if now - date >=
\* max_time_since_update (an age equal to the threshold included) and no
\* line for the host otherwise.  An age one tick short of a day is 0 days, a
\* full day is 1 days.
C11_AgeLine ==
    mpc = "done" =>
        \A h \in Hosts :
            author_dates[h].set =>
                /\ IF now - author_dates[h].t >= config.max_time_since_update
                   THEN /\ HasLine(h, ToString((now - author_dates[h].t) \div TicksPerDay)
                                            \o " days")
                        /\ LinesOf(h) = 1
                   ELSE LinesOf(h) = 0
                /\ (author_dates[h].t = 1 - TicksPerDay /\ now = 0) => HasLine(h, "0 days")
                /\ (author_dates[h].t = 1 - TicksPerDay /\ now = 1) => HasLine(h, "1 days")

\* C11 witness: h1 is as old as the threshold and reported with 0 days, h2 is
\* a day and a tick old and reported with 1 days.
C11_Witness ==
    /\ mpc = "done"
    /\ author_dates["h1"] = Date(0) /\ now = 1 /\ config.max_time_since_update = 1
    /\ author_dates["h2"] = Date(1 - TicksPerDay) /\ revisions["h2"].revision_or_message = "a"
    /\ message = <<"h1: 0 days", "h2: 1 days">>
    /\ shown = <<"h1: 0 days\nh2: 1 days">>

\* Caller h made the calls i and i + 1 of get_commit_info for one commit
\* one after the other, no other caller did anything and the remote
\* answered every fetch of the commit alike.
TwiceInARow(h, i) ==
    /\ i + 1 <= Len(log[h])
    /\ log[h][i].fn = "get_commit_info" /\ log[h][i + 1].fn = "get_commit_info"
    /\ log[h][i].commit = log[h][i + 1].commit
    /\ \A g \in Hosts \ {h} : log[g] = <<>> /\ cpc[g] = "idle"
    /\ ~changed

\* C12 as claimed: two calls of get_commit_info in a row for one commit
\* return the same and make at most one fetch between them.
C12_AtMostOneFetch ==
    \A h \in Hosts : \A i \in 1..MaxCalls :
        TwiceInARow(h, i) =>
            /\ log[h][i].outcome = log[h][i + 1].outcome
            /\ log[h][i].doc = log[h][i + 1].doc
            /\ log[h][i].fetches + log[h][i + 1].fetches <= 1

\* C12 amended: two calls of get_commit_info in a row for one commit return
\* the same; each makes at most one fetch, and the second makes none
\* exactly when the first returned a document whose sha is the commit (from
\* the file or from its fetch).  After a failed fetch or a document with
\* another sha the second call fetches again.
C12_SecondFetchUnlessMatch ==
    \A h \in Hosts : \A i \in 1..MaxCalls :
        TwiceInARow(h, i) =>
            /\ log[h][i].outcome = log[h][i + 1].outcome
            /\ log[h][i].doc = log[h][i + 1].doc
            /\ log[h][i].fetches <= 1 /\ log[h][i + 1].fetches <= 1
            /\ log[h][i + 1].fetches = 0
                  <=> /\ log[h][i].outcome = "value"
                      /\ log[h][i].doc.sha = log[h][i].commit

\* C12 witness: the first call fetched the document of "a", the second
\* returned it from the file.
C12_Witness ==
    /\ TwiceInARow("h1", 1)
    /\ log["h1"][1].fetches = 1 /\ log["h1"][2].fetches = 0
    /\ log["h1"][1].doc = Doc("a", TRUE, 0) /\ log["h1"][2].doc = Doc("a", TRUE, 0)
    /\ cache["a"] = Doc("a", TRUE, 0)

\* Caller h is about to begin a call.
Calling(h) == cpc[h] = "idle" /\ cpc'[h] = "fetch"

\* A call of caller h returns in this step without a fetch.
ReturnsFromFile(h) ==
    /\ cpc[h] = "idle"
    /\ Len(log'[h]) = Len(log[h]) + 1
    /\ log'[h][Len(log'[h])].fetches = 0

\* C13: a call returns from the cache file, without a fetch, only if the
\* file is a JSON document whose sha is the requested commit, and then
\* returns that document; a call that finds the file absent, not JSON or
\* with another sha fetches.  A fetched document with another sha is stored
\* all the same, and as long as it is the file every call for the commit
\* fetches anew.
C13_HitCheck ==
    /\ [][\A h \in Hosts :
            ReturnsFromFile(h) =>
                LET e == log'[h][Len(log'[h])]
                IN  /\ cache[e.commit].kind = "doc"
                    /\ cache[e.commit].sha = e.commit
                    /\ e.doc = cache[e.commit]
                    /\ e.outcome = "value"]_vars
    /\ [][\A h \in Hosts :
            (cpc[h] = "idle" /\ cpc'[h] # "idle" /\ cpc'[h] # "dead")
                => (Calling(h)
                        /\ (cache[call'[h].commit].kind # "doc"
                               \/ cache[call'[h].commit].sha # call'[h].commit
                               \/ (call'[h].fn = "get_author_date"
                                      /\ ~cache[call'[h].commit].date_ok)))]_vars
    /\ [][\A h \in Hosts :
            (cpc[h] = "replace" /\ cpc'[h] \notin {"replace", "dead"})
                => cache'[call[h].commit] = commit_info[h]]_vars
    /\ [][\A h \in Hosts : \A c \in Commits :
            (cache[c].kind = "doc" /\ cache[c].sha # c /\ cpc[h] = "idle"
                /\ cpc'[h] # "dead"
                /\ (log'[h] # log[h] \/ call'[h].commit = c))
                => (Calling(h) /\ log'[h] = log[h])]_vars

\* C13 witness: the file of "a" is the document with sha "b" that the first
\* call of h1 fetched, and its second call is fetching again.
C13_Witness ==
    /\ cache["a"] = Doc("b", TRUE, 0)
    /\ Len(log["h1"]) = 1
    /\ log["h1"][1].fetches = 1 /\ log["h1"][1].doc = Doc("b", TRUE, 0)
    /\ cpc["h1"] = "fetch" /\ nfetch["h1"] = 0
    /\ log["h2"] = <<>> /\ cpc["h2"] = "idle"

\* The signals of increasingly_kill_process in their order.
KillOrder == <<SIGHUP, SIGTERM, SIGKILL>>

\* The signals sent to the process of h are the first ones of KillOrder, the
\* hangup is sent as soon as the read or the wait is interrupted, and a
\* process that was seen to exit has got no signal after that.
OrderKept(h) ==
    /\ Len(sigs[h]) <= Len(KillOrder)
    /\ sigs[h] = SubSeq(KillOrder, 1, Len(sigs[h]))
    /\ (exc[h] # NoExc /\ proc[h] \in {"running", "exited"}) => sigs[h] # <<>>
    /\ tpc[h] \in {"read", "wait_exit"} => sigs[h] = <<>>
    /\ tpc[h] = "hup_wait" => sigs[h] = <<SIGHUP>>
    /\ tpc[h] = "term_wait" => sigs[h] = <<SIGHUP, SIGTERM>>

\* C14: the signals are sent in the order hangup, terminate, kill, each
\* later one only after the wait for the one before timed out, none after
\* the exit was seen, and a task that has sent a signal ends only after
\* its wait for the exit of the process has returned.
C14_KillThenWait ==
    \A h \in Hosts :
        mpc = "query" =>
            /\ OrderKept(h)
            /\ (Finished(h) /\ sigs[h] # <<>>) => (proc[h] = "exited" /\ waited[h])

\* C14 without the final wait: the order of the signals alone.
C14_OrderAlone == \A h \in Hosts : mpc = "query" => OrderKept(h)

\* C15: a result that is recorded stays as it is while the query goes on,
\* through the expiry of the deadline and whatever the other tasks do, and
\* is returned as it is; the query phase ends in no other way than by
\* get_all_nixos_revisions returning.
C15_RecordedResultsKept ==
    /\ [][\A h \in Hosts :
            (mpc = "query" /\ results[h].set)
                => /\ mpc' = "query" => results'[h] = results[h]
                   /\ mpc' # "query" => revisions'[h] = results[h]]_vars
    /\ [][mpc = "query" => mpc' \in {"query", "begin_resolve"}]_vars
    /\ [](mpc = "query" => \A h \in Hosts : atDeadline[h] = "done" => results[h].set)

\* C15 witness: h1 had reported "a" when the deadline expired during the
\* read of h2, and get_all_nixos_revisions is about to return both results.
C15_Witness ==
    /\ mpc = "query" /\ expired
    /\ atDeadline["h1"] = "done" /\ atDeadline["h2"] = "read"
    /\ results["h1"] = RevisionResult("a", FALSE)
    /\ results["h2"] = RevisionResult("query timed out", TRUE)
    /\ ENABLED QueryReturn

\* The entries of get_author_date in the log of h.
DateCalls(h) == {i \in 1..Len(log[h]) : log[h][i].fn = "get_author_date"}

\* C16: a call of get_author_date fetches with update_commit_info directly
\* (the forced refetch) only when nothing was fetched in the call before,
\* that is after a cache hit, so no call makes more than one fetch; a call
\* returns no date unless its last document has a valid one.
C16_RefetchOnlyAfterHit ==
    \A h \in Hosts :
        /\ (call[h].fn = "get_author_date" /\ cpc[h] = "fetch" /\ forced[h])
              => nfetch[h] = 0
        /\ \A i \in DateCalls(h) :
              /\ log[h][i].fetches <= 1
              /\ log[h][i].outcome = "value" => log[h][i].doc.date_ok

\* C16 without the origin of the refetch: a call of get_author_date makes
\* at most two fetches, the second one only with update_commit_info
\* directly, and returns a date only from a document with a valid one.
C16_AtMostTwoFetches ==
    \A h \in Hosts :
        /\ nfetch[h] <= 2
        /\ (call[h].fn = "get_author_date" /\ cpc[h] = "fetch" /\ nfetch[h] = 1)
              => forced[h]
        /\ cpc[h] = "fetch" => nfetch[h] <= 1
        /\ \A i \in DateCalls(h) :
              /\ log[h][i].fetches <= 2
              /\ log[h][i].outcome = "value"
                    => (log[h][i].doc.date_ok /\ log[h][i].date = Date(log[h][i].doc.date))

C18_SharedDeadline ==
    (mpc = "resolve" /\ \E h \in Hosts : rpc[h] = "fetch") => clock <= HttpTimeout

\* C18 with a timer for each fetch in place of the shared one: no fetch is
\* waited for longer than http_timeout, the resolution is over within twice
\* http_timeout, and an author date once stored stays until the report.
C18_TimerPerFetch ==
    /\ [](mpc = "resolve" =>
            /\ \A h \in Hosts : rpc[h] = "fetch" => clock - started[h] <= HttpTimeout
            /\ clock <= 2 * HttpTimeout)
    /\ [][\A h \in Hosts :
            (mpc = "resolve" /\ author_dates[h].set) => author_dates'[h] = author_dates[h]]_vars

\* C19: no failure of a fetch ends the run: no exception of
\* update_commit_info reaches async_main, which goes on to build the report.
C19_FetchFailureContained == mpc # "crashed"

\* C20 as claimed: two timestamps stored one after the other by runs
\* without the force flag are at least notification_interval apart.
C20_IntervalApart ==
    \A i \in 1..(Len(stamps) - 1) :
        stamps[i + 1] - stamps[i] >= config.notification_interval

\* C20 amended: the last-notification file is written only in the step in
\* which a run shows its report, with the time of the report cut to whole
\* seconds; a run that is suppressed, ends with an empty report or is ended
\* by an exception leaves it as it is.  Two timestamps stored one after the
\* other by runs without the force flag are at least notification_interval
\* cut to whole seconds apart.
C20_WholeSecondsApart ==
    /\ [][lastFile' # lastFile
            => /\ mpc = "resolve" /\ mpc' = "done"
               /\ message' # <<>>
               /\ shown' = Append(shown, Join(message'))
               /\ lastFile' = Stamp(Isoformat(now'))
               /\ stamps' = Append(stamps, Isoformat(now'))]_vars
    /\ [][(mpc' # mpc /\ (mpc' \in {"suppressed", "crashed"}
                            \/ (mpc' = "done" /\ message' = <<>>)))
            => (lastFile' = lastFile /\ shown' = shown)]_vars
    /\ [](\A i \in 1..(Len(stamps) - 1) :
            stamps[i + 1] - stamps[i] >= Isoformat(config.notification_interval))

\* C20 witness: the second run was not suppressed a whole second after the
\* notification of the first and has stored its own timestamp.
C20_Witness ==
    /\ ~force /\ runs = 2 /\ mpc = "done"
    /\ config.notification_interval = TicksPerSecond
    /\ stamps = <<0, TicksPerSecond>>
    /\ lastFile = Stamp(TicksPerSecond)
    /\ shown # <<>>

====
